---- MODULE Spec2Model ----
(***************************************************************************)
(* A model of canvas_scraper.py: one run of main() over a list of courses, *)
(* their modules and the modules' items, with the embedded-file link       *)
(* rewriter and the global set of downloaded file ids.  The remote service *)
(* is the environment: every remote call either answers or raises one of   *)
(* the canvasapi exceptions, chosen nondeterministically.                   *)
(***************************************************************************)
EXTENDS Integers, Sequences, FiniteSets, TLC

\* ---------------------------------------------------------------- bounds
NumCourses == 2        \* courses in courses_to_process
MaxModules == 1        \* modules a course lists
MaxItems == 2          \* items a module lists

\* ------------------------------------------------------- the remote world
CourseNames == <<"Algebra", "Biology", "Chemistry", "Drama">>
ModuleNames == <<"Week 1", "Week 2", "Week 3", "Week 4">>
OutputDir == <<"canvas_output">>

\* File ids as they appear in the HTML text: strings of decimal digits.
FileIdTexts == {<<4>>, <<4, 2>>}

RECURSIVE ParseInt(_)
\* int(file_id)
ParseInt(digits) ==
    IF digits = <<>> THEN 0
    ELSE 10 * ParseInt(SubSeq(digits, 1, Len(digits) - 1)) + digits[Len(digits)]

FileIds == {ParseInt(d) : d \in FileIdTexts}

\* canvas_file_obj.display_name of each remote file
display_name == [id \in FileIds |-> IF id = 4 THEN "notes:v2.pdf" ELSE "diagram.png"]

\* pathvalidate.sanitize_filename: drops the characters a file name may not hold
sanitize_filename(name) ==
    CASE name = "notes:v2.pdf" -> "notesv2.pdf"
      [] OTHER -> name

\* The exceptions a remote call raises; "ok" is a normal return.
RemoteOutcomes == {"ok", "ResourceDoesNotExist", "Forbidden", "Exception"}
CourseOutcomes == {"ok", "Unauthorized", "Forbidden", "Exception"}

\* ------------------------------------------------------------------ HTML
\* A fragment is the sequence of its <img src=".../files/ID/..."> and
\* <a href=".../files/ID/...">text</a> tags.  href.local = FALSE is the
\* remote URL of file `id`; a rewritten reference holds the relative path
\* and whatever the pattern left behind it (tail).
RemoteRef == [local |-> FALSE, path |-> <<>>, tail |-> <<>>]
Img(id) == [tag |-> "img", id |-> id, text |-> "", href |-> RemoteRef]
Anchor(id, text) == [tag |-> "a", id |-> id, text |-> text, href |-> RemoteRef]

\* The module items the remote service may list.
Page(body) == [type |-> "Page", body |-> body, content_id |-> 0]
Assignment(body) == [type |-> "Assignment", body |-> body, content_id |-> 0]
FileItem(id) == [type |-> "File", body |-> <<>>, content_id |-> id]
PlainItem(type) == [type |-> type, body |-> <<>>, content_id |-> 0]

ItemPool ==
    { Page(<<Img(<<4>>), Anchor(<<4>>, "<b>lecture notes</b>")>>),
      Page(<<Img(<<4>>), Img(<<4, 2>>)>>),
      Assignment(<<Anchor(<<4, 2>>, " "), Anchor(<<4, 2>>, " ")>>),
      Page(<<>>),
      FileItem(4),
      PlainItem("SubHeader") }

RECURSIVE SeqsUpTo(_, _)
SeqsUpTo(S, n) ==
    IF n = 0 THEN {<<>>}
    ELSE LET shorter == SeqsUpTo(S, n - 1)
         IN  shorter \cup {Append(s, x) : s \in {t \in shorter : Len(t) = n - 1}, x \in S}

\* ----------------------------------------------------------------- paths
\* A path is the sequence of its components.
RECURSIVE CommonPrefixLen(_, _)
CommonPrefixLen(p, q) ==
    IF p = <<>> \/ q = <<>> \/ Head(p) # Head(q) THEN 0
    ELSE 1 + CommonPrefixLen(Tail(p), Tail(q))

\* os.path.relpath(path, start)
relpath(path, start) ==
    LET n == CommonPrefixLen(path, start)
    IN  [i \in 1..(Len(start) - n) |-> ".."] \o SubSeq(path, n + 1, Len(path))

RECURSIVE JoinPath(_, _)
\* The file a relative path names when it is resolved against directory dir.
JoinPath(dir, rel) ==
    IF rel = <<>> THEN dir
    ELSE IF Head(rel) = ".."
         THEN JoinPath(SubSeq(dir, 1, Len(dir) - 1), Tail(rel))
         ELSE JoinPath(Append(dir, Head(rel)), Tail(rel))

\* ------------------------------------------------------ the asset fetcher
NoPath == [found |-> FALSE, path |-> <<>>]

\* The registry is never consulted.
AlreadyDownloaded_unchecked(registry, id) == FALSE

\* `canvas_file_obj.id in DOWNLOADED_FILE_IDS_GLOBAL`
AlreadyDownloaded(registry, id) == id \in registry

\* What is remembered of a call of canvas_file_obj.download: the file, whether
\* download() had been called for it before, and whether it was registered.
NoDownload == [id |-> 0, again |-> FALSE, registered |-> FALSE]
DownloadCall(registry, attempted, id) ==
    [id |-> id, again |-> id \in attempted, registered |-> id \in registry]

\* download_canvas_file_object(canvas_file_obj, target_dir, ...): the value it
\* returns, what it leaves in the registry and on disk, and the call of
\* download() it made (called), which raises unless download_ok.
download_canvas_file_object(registry, files, attempted, id, target_dir, download_ok) ==
    LET file_path == Append(target_dir, sanitize_filename(display_name[id]))
    IN  IF AlreadyDownloaded(registry, id)
        THEN [result |-> [found |-> TRUE, path |-> file_path],
              registry |-> registry, disk |-> files,
              called |-> NoDownload, downloaded |-> FALSE]
        ELSE IF download_ok
        THEN [result |-> [found |-> TRUE, path |-> file_path],
              registry |-> registry \cup {id}, disk |-> files \cup {file_path},
              called |-> DownloadCall(registry, attempted, id), downloaded |-> TRUE]
        ELSE [result |-> NoPath,
              registry |-> registry, disk |-> files,
              called |-> DownloadCall(registry, attempted, id), downloaded |-> FALSE]

\* ------------------------------------------------------ the link rewriter
IsPrefix(p, s) == Len(p) <= Len(s) /\ SubSeq(s, 1, Len(p)) = p

\* rf'/files/{file_id}' inside a URL: the pattern is not anchored after the
\* digits, so it matches the URL of every file whose id starts with file_id.
MatchesFileId(file_id, tag) == ~tag.href.local /\ IsPrefix(file_id, tag.id)

\* found_file_ids: the set of ids file_id_pattern finds in html_content
found_file_ids(html_content) ==
    {html_content[i].id : i \in {j \in DOMAIN html_content : ~html_content[j].href.local}}

\* rf'\1{relative_path}\2\3': the reference becomes the relative path followed
\* by the part of the URL the pattern's group 2 kept.
Rewritten(file_id, tag, relative_path) ==
    [tag EXCEPT !.href = [local |-> TRUE, path |-> relative_path,
                          tail |-> SubSeq(tag.id, Len(file_id) + 1, Len(tag.id))]]

\* img_pattern.sub(...)
sub_img(html, file_id, relative_path) ==
    [i \in DOMAIN html |->
        IF html[i].tag = "img" /\ MatchesFileId(file_id, html[i])
        THEN Rewritten(file_id, html[i], relative_path) ELSE html[i]]

\* a_pattern.sub(...)
sub_a(html, file_id, relative_path) ==
    [i \in DOMAIN html |->
        IF html[i].tag = "a" /\ MatchesFileId(file_id, html[i])
        THEN Rewritten(file_id, html[i], relative_path) ELSE html[i]]

\* img_pattern.search(html_content)
img_search(html_content, file_id) ==
    \E i \in DOMAIN html_content :
        html_content[i].tag = "img" /\ MatchesFileId(file_id, html_content[i])

\* html2text.html2text(fragment).strip() of an anchor's inner HTML
html2text_strip(inner) ==
    CASE inner = "<b>lecture notes</b>" -> "**lecture notes**"
      [] inner = " " -> ""
      [] OTHER -> inner

\* The label of the bullet: the text of the first anchor that matches, else
\* the sanitized display name.
link_text(html_content, file_id, default) ==
    LET hits == {i \in DOMAIN html_content :
                    html_content[i].tag = "a" /\ MatchesFileId(file_id, html_content[i])}
    IN  IF hits = {} THEN default
        ELSE LET first == CHOOSE i \in hits : \A j \in hits : i <= j
                 temp_text == html2text_strip(html_content[first].text)
             IN  IF temp_text # "" THEN temp_text ELSE default

\* `if not img_pattern.search(html_content)`: the anchor pass runs only for an
\* id that matches no image of the original fragment.
runs_anchor_pass(html_content, file_id) == ~img_search(html_content, file_id)

\* Every id goes through download_canvas_file_object.
calls_fetcher_always(registry, id) == TRUE

\* The registered branch of the loop computes the path itself; only the other
\* branch calls download_canvas_file_object.
calls_fetcher(registry, id) == ~AlreadyDownloaded(registry, id)

\* One extract_and_download_embedded_files call in progress.
NoCall ==
    [html_content |-> <<>>, modified_html |-> <<>>, pending |-> {},
     links |-> {}, fetcher_calls |-> 0, outcome |-> <<>>, paths |-> {},
     known |-> {}]

\* known is the registry as the call found it.
BeginCall(html_content, registry) ==
    [html_content |-> html_content, modified_html |-> html_content,
     pending |-> found_file_ids(html_content),
     links |-> {}, fetcher_calls |-> 0,
     outcome |-> [f \in found_file_ids(html_content) |-> "pending"],
     paths |-> {}, known |-> registry]

\* Lines 128-157: the rewriting of one resolved id.
rewrite_links(call, file_id, local_file_path, module_readme_dir) ==
    LET relative_path == relpath(local_file_path, module_readme_dir)
        html1 == sub_img(call.modified_html, file_id, relative_path)
        id == ParseInt(file_id)
    IN  IF runs_anchor_pass(call.html_content, file_id)
        THEN [call EXCEPT
                !.modified_html = sub_a(html1, file_id, relative_path),
                !.links = @ \cup {[label |-> link_text(call.html_content, file_id,
                                                sanitize_filename(display_name[id])),
                                   href |-> [local |-> TRUE, path |-> relative_path,
                                             tail |-> <<>>],
                                   id |-> id]}]
        ELSE [call EXCEPT !.modified_html = html1]

\* One iteration of `for file_id in found_file_ids` (lines 105-165): what it
\* does to the call, the registry and the disk, given what course.get_file
\* answers (resolved) and whether download() succeeds.
rewrite_file_id(c, registry, files, attempted, file_id, files_subdir, readme_dir, resolved, download_ok) ==
    LET id == ParseInt(file_id)
        rest == [c EXCEPT !.pending = @ \ {file_id}]
        same == [registry |-> registry, disk |-> files, called |-> NoDownload,
                 downloaded |-> FALSE]
    IN  IF resolved # "ok"
        THEN [call |-> [rest EXCEPT !.outcome[file_id] = "unresolved"]] @@ same
        ELSE IF ~calls_fetcher(registry, id)
        THEN LET local_file_path ==
                     Append(files_subdir, sanitize_filename(display_name[id]))
                 c1 == [rest EXCEPT !.outcome[file_id] = "registered",
                                    !.paths = @ \cup {<<id, local_file_path>>}]
             IN  [call |-> rewrite_links(c1, file_id, local_file_path, readme_dir)]
                 @@ same
        ELSE LET got == download_canvas_file_object(registry, files, attempted, id,
                                                    files_subdir, download_ok)
                 c1 == [rest EXCEPT !.fetcher_calls = @ + 1]
             IN  IF ~got.result.found
                 THEN [call |-> [c1 EXCEPT !.outcome[file_id] = "download_failed"],
                       registry |-> got.registry, disk |-> got.disk,
                       called |-> got.called, downloaded |-> got.downloaded]
                 ELSE LET c2 == [c1 EXCEPT
                                  !.outcome[file_id] = "fetched",
                                  !.paths = @ \cup {<<id, got.result.path>>}]
                      IN  [call |-> rewrite_links(c2, file_id, got.result.path,
                                                  readme_dir),
                           registry |-> got.registry, disk |-> got.disk,
                           called |-> got.called, downloaded |-> got.downloaded]

\* ------------------------------------------------------------ documents
\* convert_html_to_markdown: every tag becomes the Markdown image or link
\* with the same target.
convert_html_to_markdown(html) ==
    [i \in DOMAIN html |->
        [md |-> IF html[i].tag = "img" THEN "image" ELSE "link",
         id |-> html[i].id, href |-> html[i].href]]

\* The Markdown of one item (item_md_content).  failures and paths record what
\* happened while it was rendered: the units that failed, and the local path
\* each file reference was given.
Fragment(item, markdown, refs, file_link, notice, failures, paths) ==
    [item |-> item, markdown |-> markdown, refs |-> refs, file_link |-> file_link,
     notice |-> notice, separator |-> TRUE, failures |-> failures, paths |-> paths]

\* The last except clause logs and writes nothing.
item_notice_unwritten(raised) ==
    CASE raised = "ResourceDoesNotExist" -> "Resource not found"
      [] raised = "Forbidden" -> "Access forbidden"
      [] OTHER -> ""

\* The notice each except clause of process_module_item writes.
item_notice(raised) ==
    CASE raised = "ResourceDoesNotExist" -> "Resource not found"
      [] raised = "Forbidden" -> "Access forbidden"
      [] OTHER -> "An error occurred"

\* The try statement without its `except Exception` clause.
process_module_item_catches_named(raised) ==
    raised \in {"ResourceDoesNotExist", "Forbidden"}

\* Whether process_module_item's try statement has a clause for the exception.
process_module_item_catches(raised) ==
    raised \in {"ResourceDoesNotExist", "Forbidden", "Exception"}

\* Whether process_course's try statement has a clause for the exception.
process_course_catches(raised) ==
    raised \in {"Unauthorized", "Forbidden", "ResourceDoesNotExist", "Exception"}

\* The loop of main without its try statement.
main_catches_nothing(raised) == FALSE

\* Whether the try statement of main's loop has a clause for the exception.
main_catches(raised) ==
    raised \in {"Unauthorized", "Forbidden", "ResourceDoesNotExist", "Exception"}

EmptyReadme == [heading |-> FALSE, error |-> FALSE, items |-> <<>>]

\* The except clause returns without writing the document.
listing_failed_unwritten(heading) ==
    [readme |-> [heading |-> heading, error |-> TRUE, items |-> <<>>],
     writes |-> 0]

\* Lines 288-293: what process_module makes of a failed listing: the document
\* and how many times it opens README.md for writing.
listing_failed(heading) ==
    [readme |-> [heading |-> heading, error |-> TRUE, items |-> <<>>],
     writes |-> 1]

NoException == [kind |-> "", origin |-> ""]

\* ---------------------------------------------------------------- state
VARIABLES
    DOWNLOADED_FILE_IDS_GLOBAL, \* the ids recorded as downloaded
    disk,                   \* the paths of the downloaded files that exist
    download_attempted,     \* the file ids download() was called for
    last_download,          \* the call of download() the last step made
    downloaded_to,          \* per file id, the path its download wrote
    readme_writes,          \* per module, how often its README.md was written
    pc,                     \* where the run is
    exc,                    \* the exception that is propagating
    course_idx,             \* position in courses_to_process
    course_status,          \* per course: pending, running, finished or the failure
    modules,                \* how many modules the current course lists
    module_idx,             \* position in modules
    module_listing,         \* what module.get_module_items() answered
    module_items,           \* the items the current module lists
    item_idx,               \* position in module_items
    module_readme_content,  \* the document being aggregated
    call                    \* the link rewriter call in progress

vars == <<DOWNLOADED_FILE_IDS_GLOBAL, disk, download_attempted, last_download, downloaded_to,
          readme_writes, pc, exc, course_idx, course_status, modules,
          module_idx, module_listing, module_items, item_idx,
          module_readme_content, call>>

Courses == 1..NumCourses
ModuleKeys == Courses \X (1..MaxModules)

course_path == Append(OutputDir, CourseNames[course_idx])
module_path == Append(course_path, ModuleNames[module_idx])
files_subdir == Append(module_path, "_files")
\* module_readme_path.parent
module_readme_dir == module_path

Init ==
    /\ DOWNLOADED_FILE_IDS_GLOBAL = {}
    /\ disk = {}
    /\ download_attempted = {}
    /\ last_download = NoDownload
    /\ downloaded_to = [id \in FileIds |-> <<>>]
    /\ readme_writes = [k \in ModuleKeys |-> 0]
    /\ pc = "main"
    /\ exc = NoException
    /\ course_idx = 1
    /\ course_status = [c \in Courses |-> "pending"]
    /\ modules = 0
    /\ module_idx = 1
    /\ module_listing = ""
    /\ module_items = <<>>
    /\ item_idx = 1
    /\ module_readme_content = EmptyReadme
    /\ call = NoCall

stored == <<DOWNLOADED_FILE_IDS_GLOBAL, disk, download_attempted, downloaded_to>>
\* A step that calls no download() leaves the registry and the disk alone.
NoAssetChange == UNCHANGED stored /\ last_download' = NoDownload
course_vars == <<modules, module_idx>>
module_vars == <<module_listing, module_items, item_idx, module_readme_content, call>>

\* --------------------------------------------------------------- actions
\* Where an exception raised inside process_course lands: the innermost try
\* statement with a clause for it.
RaisedInCourse(kind) ==
    IF process_course_catches(kind) THEN "course_except"
    ELSE IF main_catches(kind) THEN "main_except"
    ELSE "crashed"

\* Lines 400-407: the next course of courses_to_process; a course object
\* without a name is fetched again, which may fail.
MainLoop ==
    /\ pc = "main"
    /\ course_idx <= NumCourses
    /\ \E has_name \in BOOLEAN, full_course \in {"ok", "Exception"} :
         IF ~has_name /\ full_course # "ok"
         THEN /\ exc' = [kind |-> full_course, origin |-> "get_course"]
              /\ pc' = IF main_catches(full_course) THEN "main_except" ELSE "crashed"
              /\ UNCHANGED course_status
         ELSE /\ pc' = "process_course"
              /\ course_status' = [course_status EXCEPT ![course_idx] = "running"]
              /\ UNCHANGED exc
    /\ NoAssetChange /\ UNCHANGED <<readme_writes, course_idx, course_vars, module_vars>>

\* Lines 306-318: course.get_modules()
process_course ==
    /\ pc = "process_course"
    /\ \E listing \in CourseOutcomes, n \in 0..MaxModules :
         IF listing # "ok"
         THEN /\ exc' = [kind |-> listing, origin |-> "get_modules"]
              /\ pc' = RaisedInCourse(listing)
              /\ UNCHANGED course_vars
         ELSE /\ modules' = n
              /\ module_idx' = 1
              /\ pc' = "course"
              /\ UNCHANGED exc
    /\ NoAssetChange /\ UNCHANGED <<readme_writes, course_idx, course_status, module_vars>>

\* Lines 322-329: the except clauses of process_course: log, and return.
CourseExcept ==
    /\ pc = "course_except"
    /\ course_status' = [course_status EXCEPT ![course_idx] = exc.kind]
    /\ exc' = NoException
    /\ course_idx' = course_idx + 1
    /\ pc' = "main"
    /\ module_readme_content' = EmptyReadme
    /\ module_listing' = ""
    /\ module_items' = <<>>
    /\ item_idx' = 1
    /\ call' = NoCall
    /\ NoAssetChange /\ UNCHANGED <<readme_writes, course_vars>>

\* Lines 408-409: the except clause of main's loop: log, and go on.
MainExcept ==
    /\ pc = "main_except"
    /\ course_status' = [course_status EXCEPT ![course_idx] = "failed"]
    /\ exc' = NoException
    /\ course_idx' = course_idx + 1
    /\ pc' = "main"
    /\ module_readme_content' = EmptyReadme
    /\ module_listing' = ""
    /\ module_items' = <<>>
    /\ item_idx' = 1
    /\ call' = NoCall
    /\ NoAssetChange /\ UNCHANGED <<readme_writes, course_vars>>

\* Line 329: the loop over the modules ends and process_course returns.
CourseReturn ==
    /\ pc = "course"
    /\ module_idx > modules
    /\ course_status' = [course_status EXCEPT ![course_idx] = "finished"]
    /\ course_idx' = course_idx + 1
    /\ pc' = "main"
    /\ NoAssetChange /\ UNCHANGED <<readme_writes, exc, course_vars, module_vars>>

\* Line 411: the loop over the courses ends.
MainDone ==
    /\ pc = "main"
    /\ course_idx > NumCourses
    /\ pc' = "done"
    /\ NoAssetChange /\ UNCHANGED <<readme_writes, exc, course_idx, course_status,
                   course_vars, module_vars>>

\* Lines 277-293: process_module up to the listing of its items.
process_module ==
    /\ pc = "course"
    /\ module_idx <= modules
    /\ \E listing \in {"ok", "Exception"}, items \in SeqsUpTo(ItemPool, MaxItems) :
         /\ module_listing' = listing
         /\ IF listing # "ok"
            THEN LET failed == listing_failed(TRUE)
                 IN  /\ module_readme_content' = failed.readme
                     /\ readme_writes' =
                           [readme_writes EXCEPT ![<<course_idx, module_idx>>] = @ + failed.writes]
                     /\ module_items' = <<>>
                     /\ pc' = "module_return"
            ELSE /\ module_readme_content' =
                       [heading |-> TRUE, error |-> FALSE, items |-> <<>>]
                 /\ module_items' = items
                 /\ pc' = "items"
                 /\ UNCHANGED readme_writes
    /\ item_idx' = 1
    /\ NoAssetChange /\ UNCHANGED <<exc, course_idx, course_status, course_vars, call>>

\* `module_readme_content += item_md` and the next iteration of the loop
AppendFragment(fragment) ==
    /\ module_readme_content' =
          [module_readme_content EXCEPT !.items = Append(@, fragment)]
    /\ item_idx' = item_idx + 1
    /\ pc' = "items"
    /\ UNCHANGED <<exc, module_listing, module_items>>

\* An exception raised inside the try statement of process_module_item.
ItemRaised(item, raised) ==
    IF process_module_item_catches(raised)
    THEN AppendFragment(Fragment(item, <<>>, {}, <<>>, item_notice(raised),
                                 {"fetch_failed"}, {}))
    ELSE /\ exc' = [kind |-> raised, origin |-> "process_module_item"]
         /\ pc' = RaisedInCourse(raised)
         /\ UNCHANGED <<module_readme_content, item_idx, module_listing, module_items>>

\* Lines 205-210: the File item.
file_item(item, download_ok) ==
    LET got == download_canvas_file_object(DOWNLOADED_FILE_IDS_GLOBAL, disk,
                   download_attempted, item.content_id, files_subdir, download_ok)
    IN  /\ DOWNLOADED_FILE_IDS_GLOBAL' = got.registry
        /\ disk' = got.disk
        /\ last_download' = got.called
        /\ download_attempted' = download_attempted \cup
                                    (IF got.called.id = 0 THEN {} ELSE {got.called.id})
        /\ downloaded_to' = IF got.downloaded
                            THEN [downloaded_to EXCEPT ![item.content_id] = got.result.path]
                            ELSE downloaded_to
        /\ IF got.result.found
           THEN AppendFragment(Fragment(item, <<>>, {},
                    <<[local |-> TRUE,
                       path |-> relpath(got.result.path, module_readme_dir),
                       tail |-> <<>>]>>,
                    "", {}, {<<item.content_id, got.result.path>>}))
           ELSE AppendFragment(Fragment(item, <<>>, {}, <<>>, "",
                                        {"download_failed"}, {}))

\* Lines 170-274: process_module_item, up to its return or, for an item with
\* an HTML body, up to the call of extract_and_download_embedded_files.
process_module_item ==
    /\ pc = "items"
    /\ item_idx <= Len(module_items)
    /\ LET item == module_items[item_idx]
       IN  \E fetched \in RemoteOutcomes, download_ok \in BOOLEAN :
             IF item.type \in {"Page", "Assignment"}
             THEN /\ NoAssetChange
                  /\ IF fetched # "ok"
                     THEN ItemRaised(item, fetched) /\ UNCHANGED call
                     ELSE IF item.body = <<>>
                     THEN /\ AppendFragment(Fragment(item, <<>>, {}, <<>>,
                                                     "no content", {}, {}))
                          /\ UNCHANGED call
                     ELSE /\ call' = BeginCall(item.body, DOWNLOADED_FILE_IDS_GLOBAL)
                          /\ pc' = "rewrite"
                          /\ UNCHANGED <<exc, module_listing, module_items, item_idx,
                                         module_readme_content>>
             ELSE IF item.type = "File"
             THEN /\ UNCHANGED call
                  /\ IF fetched # "ok"
                     THEN ItemRaised(item, fetched) /\ NoAssetChange
                     ELSE file_item(item, download_ok)
             ELSE /\ AppendFragment(Fragment(item, <<>>, {}, <<>>, "", {}, {}))
                  /\ NoAssetChange /\ UNCHANGED <<call>>
    /\ UNCHANGED <<readme_writes, course_idx, course_status, course_vars>>

\* Lines 105-165: one iteration of the loop over found_file_ids.
RewriteFileId ==
    /\ pc = "rewrite"
    /\ \E file_id \in call.pending, resolved \in RemoteOutcomes, download_ok \in BOOLEAN :
         LET id == ParseInt(file_id)
             step == rewrite_file_id(call, DOWNLOADED_FILE_IDS_GLOBAL, disk,
                         download_attempted, file_id, files_subdir, module_readme_dir,
                         resolved, download_ok)
         IN  /\ call' = step.call
             /\ DOWNLOADED_FILE_IDS_GLOBAL' = step.registry
             /\ disk' = step.disk
             /\ last_download' = step.called
             /\ download_attempted' = download_attempted \cup
                                         (IF step.called.id = 0 THEN {} ELSE {step.called.id})
             /\ downloaded_to' =
                   IF step.downloaded
                   THEN [downloaded_to EXCEPT
                           ![id] = Append(files_subdir, sanitize_filename(display_name[id]))]
                   ELSE downloaded_to
    /\ UNCHANGED <<readme_writes, pc, exc, course_idx, course_status, course_vars,
                   module_listing, module_items, item_idx, module_readme_content>>

\* The units of the call that failed.
CallFailures(c) ==
    {f \in {"file_unresolved", "download_failed"} :
        \E file_id \in DOMAIN c.outcome :
            c.outcome[file_id] = (IF f = "file_unresolved" THEN "unresolved" ELSE f)}

\* Line 167 and lines 199-201 (225-227): the call returns and the item's
\* Markdown is the converted fragment followed by the referenced files.
RewriteReturn ==
    /\ pc = "rewrite"
    /\ call.pending = {}
    /\ AppendFragment(Fragment(module_items[item_idx],
                               convert_html_to_markdown(call.modified_html),
                               call.links, <<>>, "", CallFailures(call), call.paths))
    /\ call' = NoCall
    /\ NoAssetChange /\ UNCHANGED <<readme_writes, course_idx, course_status, course_vars>>

\* Lines 299-302: the module's document is written.
WriteReadme ==
    /\ pc = "items"
    /\ item_idx > Len(module_items)
    /\ readme_writes' = [readme_writes EXCEPT ![<<course_idx, module_idx>>] = @ + 1]
    /\ pc' = "module_return"
    /\ NoAssetChange /\ UNCHANGED <<exc, course_idx, course_status, course_vars, module_vars>>

\* process_module returns and the loop of process_course goes on.
ModuleReturn ==
    /\ pc = "module_return"
    /\ module_idx' = module_idx + 1
    /\ module_readme_content' = EmptyReadme
    /\ module_listing' = ""
    /\ module_items' = <<>>
    /\ item_idx' = 1
    /\ pc' = "course"
    /\ NoAssetChange /\ UNCHANGED <<readme_writes, exc, course_idx, course_status, modules, call>>

Next ==
    \/ MainLoop
    \/ process_course
    \/ CourseExcept
    \/ MainExcept
    \/ CourseReturn
    \/ MainDone
    \/ process_module
    \/ process_module_item
    \/ RewriteFileId
    \/ RewriteReturn
    \/ WriteReadme
    \/ ModuleReturn

Spec == Init /\ [][Next]_vars

\* The run is one thread that never waits: whatever step is enabled is taken.
FairSpec == Spec /\ WF_vars(Next)

\* ---------------------------------------------------------------- claims
InModule == pc \in {"items", "rewrite", "module_return"}
ModuleKey == <<course_idx, module_idx>>
Fragments == {module_readme_content.items[k] : k \in DOMAIN module_readme_content.items}
CallReturns == pc = "rewrite" /\ call.pending = {}
SkippedStatuses == {"Unauthorized", "Forbidden", "Exception", "failed"}
FetchNotices == {"Resource not found", "Access forbidden", "An error occurred"}

\* The file name under which a file id is stored.
LocalName(id) == sanitize_filename(display_name[id])

\* C1 as stated: download() is never called for a file it was already called
\* for, whatever became of the earlier call.
C1_DownloadCalledAtMostOnce == ~last_download.again

\* C1, amended: download() is never called for a file id that is in the
\* registry, so it succeeds at most once per file id and the file is stored
\* in one place only; a call that failed is repeated by the next reference.
C1_NoDownloadOnceRegistered ==
    /\ ~last_download.registered
    /\ \A id \in FileIds :
         /\ Cardinality({f \in disk : f[Len(f)] = LocalName(id)}) <= 1
         /\ (id \in DOWNLOADED_FILE_IDS_GLOBAL) = (downloaded_to[id] # <<>>)

\* A file that was downloaded for one module has been referenced again from
\* another module, and no download() was called for it.
C1_Witness ==
    /\ last_download = NoDownload
    /\ \E fragment \in Fragments : \E ref \in fragment.paths :
         /\ ref[1] \in DOWNLOADED_FILE_IDS_GLOBAL
         /\ downloaded_to[ref[1]] # ref[2]

\* C2: every reference to a file id that is in the registry is given the local
\* path the file was downloaded to.
C2_SameLocalPath ==
    \A fragment \in Fragments : \A ref \in fragment.paths :
        ref[2] = downloaded_to[ref[1]]

\* The links of a fragment: the rewritten references of its Markdown, its
\* referenced-files bullets and its File bullet.
LinksOf(fragment) ==
    {fragment.markdown[i].href :
        i \in {j \in DOMAIN fragment.markdown : fragment.markdown[j].href.local}}
    \cup {bullet.href : bullet \in fragment.refs}
    \cup {fragment.file_link[i] : i \in DOMAIN fragment.file_link}

\* The relative path, resolved against the directory of the document, names
\* a file that exists under the module's _files directory.
ResolvesToFile(href) ==
    /\ href.tail = <<>>
    /\ JoinPath(module_readme_dir, href.path) \in disk
    /\ IsPrefix(files_subdir, JoinPath(module_readme_dir, href.path))

\* C3: every relative path written into a module document resolves, from the
\* document's directory, to an existing file under that module's _files.
C3_LinksResolve ==
    InModule => \A fragment \in Fragments : \A href \in LinksOf(fragment) :
                    ResolvesToFile(href)

\* The tags of a fragment that refer to exactly this file id.
TagsOf(html, file_id, tag) ==
    {i \in DOMAIN html : html[i].tag = tag /\ html[i].id = file_id}

\* C4: when the call returns, an id that was resolved and occurs both in an
\* image source and in an anchor target has its images rewritten, its anchors
\* rewritten and a bullet in the side list.
C4_ImageAndAnchorBothRewritten ==
    CallReturns =>
        \A file_id \in DOMAIN call.outcome :
            ( /\ call.outcome[file_id] \in {"fetched", "registered"}
              /\ TagsOf(call.html_content, file_id, "img") # {}
              /\ TagsOf(call.html_content, file_id, "a") # {} )
            => /\ \A i \in TagsOf(call.html_content, file_id, "img") :
                     call.modified_html[i].href.local
               /\ \A i \in TagsOf(call.html_content, file_id, "a") :
                     call.modified_html[i].href.local
               /\ \E bullet \in call.links : bullet.id = ParseInt(file_id)

\* C5: a file whose download failed is not recorded, its references in the
\* fragment stay as they were and the side list has no bullet for it; a File
\* item whose download failed has no link; nothing is raised.
C5_FailedDownloadDropsReference ==
    /\ exc.origin # "download_canvas_file_object"
    /\ pc = "rewrite" =>
         \A file_id \in DOMAIN call.outcome :
            call.outcome[file_id] = "download_failed"
            => /\ ParseInt(file_id) \notin DOWNLOADED_FILE_IDS_GLOBAL
               /\ \A i \in DOMAIN call.html_content :
                     call.html_content[i].id = file_id
                     => call.modified_html[i] = call.html_content[i]
               /\ \A bullet \in call.links : bullet.id # ParseInt(file_id)
    /\ \A fragment \in Fragments :
         (fragment.item.type = "File" /\ "download_failed" \in fragment.failures)
         => fragment.file_link = <<>> /\ fragment.paths = {}

\* C6: an item whose content fetch raises leaves a notice in its fragment,
\* nothing propagates out of process_module, the items are rendered in the
\* order of the listing, the later ones included, and the document is written.
C6_ItemFailureIsContained ==
    /\ exc.origin # "process_module_item"
    /\ \A fragment \in Fragments :
         "fetch_failed" \in fragment.failures
         => fragment.notice \in FetchNotices /\ fragment.separator
    /\ (InModule /\ module_listing = "ok")
       => /\ Len(module_readme_content.items) = item_idx - 1
          /\ \A k \in DOMAIN module_readme_content.items :
                module_readme_content.items[k].item = module_items[k]
    /\ (pc = "module_return" /\ module_listing = "ok")
       => /\ Len(module_readme_content.items) = Len(module_items)
          /\ readme_writes[ModuleKey] = 1

\* The first item of a module failed to fetch, the second was rendered after
\* it and the document has been written.
C6_Witness ==
    /\ pc = "module_return"
    /\ Len(module_readme_content.items) = 2
    /\ "fetch_failed" \in module_readme_content.items[1].failures
    /\ module_readme_content.items[2].failures = {}
    /\ module_readme_content.items[2].markdown # <<>>
    /\ readme_writes[ModuleKey] = 1

C8_RunCompletes ==
    <>[](pc = "done" /\ \A c \in Courses :
            course_status[c] \in SkippedStatuses \cup {"finished"})

\* The first course was skipped for a failure and the second was processed.
C8_Witness ==
    /\ pc = "done"
    /\ course_status[1] \in SkippedStatuses
    /\ course_status[NumCourses] = "finished"
    /\ \E m \in 1..MaxModules : readme_writes[<<NumCourses, m>>] = 1

\* C9 as stated: every unit that fails leaves a notice in the document.
C9_EveryFailureLeavesNotice ==
    /\ \A fragment \in Fragments : fragment.failures # {} => fragment.notice # ""
    /\ \A c \in Courses :
         course_status[c] \in SkippedStatuses
         => \E m \in 1..MaxModules : readme_writes[<<c, m>>] > 0

\* C9, amended: an item whose content fetch raises and a module whose listing
\* fails leave a notice in the module's document; a file reference that is not
\* resolved or downloaded, a File item whose download fails and a skipped
\* course are logged only and leave nothing in any document.
C9_NoticesWritten ==
    /\ \A fragment \in Fragments :
         /\ "fetch_failed" \in fragment.failures => fragment.notice \in FetchNotices
         /\ fragment.failures \cap {"file_unresolved", "download_failed"} # {}
            => fragment.notice = ""
    /\ module_listing = "Exception" => module_readme_content.error
    /\ \A c \in Courses :
         course_status[c] \in SkippedStatuses
         => \A m \in 1..MaxModules : readme_writes[<<c, m>>] = 0


\* An item's content fetch failed and left its notice, and in the same
\* document a file reference failed without one.
C9_Witness ==
    /\ pc = "module_return"
    /\ \E fragment \in Fragments :
         "fetch_failed" \in fragment.failures /\ fragment.notice \in FetchNotices
    /\ \E fragment \in Fragments :
         fragment.failures \cap {"file_unresolved", "download_failed"} # {}

\* C10 as stated: a call over a fragment with N distinct file ids calls the
\* fetcher exactly N times.
C10_FetcherCalledOncePerId ==
    CallReturns =>
        call.fetcher_calls = Cardinality(found_file_ids(call.html_content))

\* C10, amended: a call calls the fetcher at most once per distinct file id,
\* however many tags refer to it: once for each id that was not in the
\* registry when the call began and whose handle was resolved, and not at all
\* for an id that was registered or whose handle could not be resolved.
C10_FetcherCalledForNewResolvedIds ==
    CallReturns =>
        call.fetcher_calls =
            Cardinality({file_id \in found_file_ids(call.html_content) :
                            /\ ParseInt(file_id) \notin call.known
                            /\ call.outcome[file_id] # "unresolved"})

\* A call returns in which one id was fetched and another, already in the
\* registry, was not.
C10_Witness ==
    /\ CallReturns
    /\ call.fetcher_calls = 1
    /\ \E file_id \in DOMAIN call.outcome : call.outcome[file_id] = "registered"
    /\ \E file_id \in DOMAIN call.outcome : call.outcome[file_id] = "fetched"

\* The ids of the call that failed: the handle was not resolved or the
\* download raised.
FailedIds(c) ==
    {file_id \in DOMAIN c.outcome : c.outcome[file_id] \in {"unresolved", "download_failed"}}

\* C11: when a call in which some id failed returns, the failed id is dropped
\* from both outputs, its references are as they were in the fragment and the
\* side list has no bullet for it, while every other id of the fragment was
\* resolved and given a local path and each of its references is rewritten to
\* that path; nothing is raised out of the call.
C11_FailureDropsOnlyThatId ==
    (CallReturns /\ FailedIds(call) # {}) =>
        /\ exc = NoException
        /\ \A file_id \in FailedIds(call) :
              /\ \A i \in DOMAIN call.html_content :
                    call.html_content[i].id = file_id
                    => call.modified_html[i] = call.html_content[i]
              /\ \A bullet \in call.links : bullet.id # ParseInt(file_id)
        /\ \A file_id \in DOMAIN call.outcome \ FailedIds(call) :
              /\ call.outcome[file_id] \in {"fetched", "registered"}
              /\ \A i \in DOMAIN call.html_content :
                    call.html_content[i].id = file_id
                    => /\ call.modified_html[i].href.local
                       /\ call.modified_html[i].href.tail = <<>>

====
